---- MODULE Spec2Model ----
(***************************************************************************)
(* A model of go-ssh-lib: the SSHLib session (sshlib.go) with its buffered *)
(* read-until engine and background reader goroutine, and the SSHAgent     *)
(* wrapper (agent file) on a connected session.                            *)
(*                                                                         *)
(* Strings are sequences of one-character strings.  Time is the value of   *)
(* getTimestamp()-startTime of the call in flight, in milliseconds.        *)
(***************************************************************************)
EXTENDS Integers, Sequences, FiniteSets, TLC

\* ---------------------------------------------------------------- bounds
\* Stream reads (successful or failed) the reader performs in a behaviour.
MaxReads == 2
\* API calls the caller starts in a behaviour.
MaxCalls == 2
\* Reader goroutines that can be started in a behaviour.
MaxReaders == 2
\* Longest output of SendCommand given to SendCommandStripCommand.
MaxOutLen == 3
\* Poll quanta by which a loop iteration can be late; the code sets no limit.
MaxLate == 2

\* ------------------------------------------------------ program constants
\* time.Sleep(250 * time.Millisecond) in GetData.
PollQuantumMs == 250
\* timeoutMs := int64(timeout) * 1000
MsPerSecond == 1000
\* SSHAgent.Timeout, the agent's configured timeout in seconds.
Timeout == 1
\* Open: s.ReadUntilRegex(s.PromptReg, 3)
OpenPromptTimeout == 3

\* ------------------------------------------------------------ input sets
\* Chunks one successful, non-empty Stdout.Read can deliver.
Chunks == {<<"a">>, <<"$">>, <<"a", "$">>}
\* Literal targets of ReadUntil ("", "$", "a$").
Literals == {<<>>, <<"$">>, <<"a", "$">>}
\* timeout arguments of the read-until calls, in seconds.
Timeouts == {0, 1}
\* Command texts.
Commands == {<<"a">>}
\* The newline.
NL == <<"\n">>
\* Commands and outputs for SendCommandStripCommand.
StripCommands == {<<>>, <<"a">>, NL}
OutputChars == {"a", "\n"}
Outputs == UNION {[1..n -> OutputChars] : n \in 0..MaxOutLen}

\* Regular expressions, by their Go source text:
\*   lit  s : the characters of s, each matching itself ("", "a", "\$")
\*   star s : "a*"   (s is the one repeated character)
\*   end  s : "\$$"  (the literal s followed by the end-of-text anchor)
\*   bad    : "("    (does not compile)
Lit(s) == [kind |-> "lit", s |-> s]
Star(c) == [kind |-> "star", s |-> <<c>>]
End(s) == [kind |-> "end", s |-> s]
Bad == [kind |-> "bad", s |-> <<>>]
Patterns == {Lit(<<"a">>), Lit(<<"$">>), Star("a"), End(<<"$">>), Bad}
\* Patterns used in lists.
ListPatterns == {Lit(<<"a">>), Lit(<<"$">>), Bad}
\* Pattern lists of ReadUntilRegexList.
RegexLists ==
    {<<p>> : p \in ListPatterns} \cup {<<p, q>> : p \in ListPatterns, q \in ListPatterns}
\* Caller's lists of SendCommandWaitForList (the prompt pattern is appended).
ExtraLists == {<<>>} \cup {<<p>> : p \in ListPatterns}
\* SSHAgent.PromptRegex of the connected agent: "\$$".
PromptRegex == End(<<"$">>)

\* ------------------------------------------------------- string functions
\* s[from:] with a 0-based offset.
Drop(s, from) == SubSeq(s, from + 1, Len(s))
\* s[:to] with a 0-based offset.
Take(s, to) == SubSeq(s, 1, to)

\* Offsets (0-based) at which sub occurs in s.
Occurrences(s, sub) ==
    {i \in 0..(Len(s) - Len(sub)) : SubSeq(s, i + 1, i + Len(sub)) = sub}

Min(S) == CHOOSE x \in S : \A y \in S : x <= y

\* strings.Index(s, sub): offset of the first occurrence, or -1.
Index(s, sub) == IF Occurrences(s, sub) = {} THEN -1 ELSE Min(Occurrences(s, sub))

\* strings.Contains(s, sub).
Contains(s, sub) == Index(s, sub) >= 0

\* Length of the longest prefix of s made of the character c.
RECURSIVE RunLen(_, _)
RunLen(s, c) == IF s # <<>> /\ Head(s) = c THEN 1 + RunLen(Tail(s), c) ELSE 0

\* Concatenation of a sequence of chunks.
RECURSIVE Flatten(_)
Flatten(chunks) == IF chunks = <<>> THEN <<>> ELSE Head(chunks) \o Flatten(Tail(chunks))

\* strings.Split(s, sep) for a non-empty sep: the pieces of s between the
\* occurrences of sep, at least one piece.
RECURSIVE Split(_, _)
Split(s, sep) ==
    IF Index(s, sep) < 0 THEN <<s>>
    ELSE <<Take(s, Index(s, sep))>> \o Split(Drop(s, Index(s, sep) + Len(sep)), sep)

\* strings.Join(elems, sep)
RECURSIVE Join(_, _)
Join(elems, sep) ==
    IF elems = <<>> THEN <<>>
    ELSE IF Len(elems) = 1 THEN elems[1]
    ELSE elems[1] \o sep \o Join(Tail(elems), sep)

\* ------------------------------------------------------------------ regexp
\* regexp.Compile(p): TRUE when err == nil; on an error the *Regexp is nil.
Compiles(p) == p.kind # "bad"

\* cmpRe.FindStringIndex(buf): <<start, end>> of the leftmost match, or
\* <<-1, -1>> for nil (no match).
FindStringIndex(p, buf) ==
    CASE p.kind = "lit" ->
            IF Index(buf, p.s) < 0 THEN <<-1, -1>>
            ELSE <<Index(buf, p.s), Index(buf, p.s) + Len(p.s)>>
      [] p.kind = "star" -> <<0, RunLen(buf, p.s[1])>>
      [] p.kind = "end" ->
            IF Len(buf) >= Len(p.s) /\ Drop(buf, Len(buf) - Len(p.s)) = p.s
            THEN <<Len(buf) - Len(p.s), Len(buf)>>
            ELSE <<-1, -1>>

\* cmpRe.MatchString(buf).
MatchString(p, buf) == FindStringIndex(p, buf)[2] >= 0

\* ------------------------------------------------------ read-until bodies
\* ReadUntil, the match branch of the loop: returnData and the new s.Buffer.
ReadUntilMatch(buf, str) ==
    LET endRead == Index(buf, str)
    IN  [data |-> Take(buf, endRead + Len(str)), rest |-> Drop(buf, endRead)]

\* ReadUntilRegex, the match branch of the loop.
ReadUntilRegexMatch(buf, p) ==
    LET endRead == FindStringIndex(p, buf)[2]
    IN  [data |-> Take(buf, endRead), rest |-> Drop(buf, endRead)]

\* ReadUntilRegexList, the inner for loop over cmpReList from index i on.
\* acc is [data, rest, found, panic]: returnData, s.Buffer, foundMatch, and
\* whether a nil *Regexp (a pattern that did not compile) was dereferenced.
RECURSIVE ScanList(_, _, _)
ScanList(list, i, acc) ==
    IF i > Len(list) THEN acc
    ELSE IF ~Compiles(list[i]) THEN [acc EXCEPT !.panic = TRUE]
    ELSE IF MatchString(list[i], acc.rest)
         THEN LET endRead == FindStringIndex(list[i], acc.rest)[2]
              IN  ScanList(list, i + 1,
                           [data |-> Take(acc.rest, endRead),
                            rest |-> Drop(acc.rest, endRead),
                            found |-> TRUE, panic |-> FALSE])
         ELSE ScanList(list, i + 1, acc)

\* One evaluation of the loop body's match test of read-until function fn on
\* buf: [data, rest, found, panic].
MatchStep(fn, target, buf) ==
    CASE fn = "ReadUntil" ->
            IF Contains(buf, target)
            THEN [data |-> ReadUntilMatch(buf, target).data,
                  rest |-> ReadUntilMatch(buf, target).rest,
                  found |-> TRUE, panic |-> FALSE]
            ELSE [data |-> <<>>, rest |-> buf, found |-> FALSE, panic |-> FALSE]
      [] fn = "ReadUntilRegex" ->
            IF MatchString(target, buf)
            THEN [data |-> ReadUntilRegexMatch(buf, target).data,
                  rest |-> ReadUntilRegexMatch(buf, target).rest,
                  found |-> TRUE, panic |-> FALSE]
            ELSE [data |-> <<>>, rest |-> buf, found |-> FALSE, panic |-> FALSE]
      [] fn = "ReadUntilRegexList" ->
            ScanList(target, 1,
                     [data |-> <<>>, rest |-> buf, found |-> FALSE, panic |-> FALSE])

\* Finish without the s.Buffer = "" of the draining branch.
FinishKeepsBuffer(returnData, buf, foundMatch) ==
    [text |-> IF returnData = <<>> THEN buf ELSE returnData,
     rest |-> buf,
     err |-> IF foundMatch THEN "nil" ELSE "ErrNoMatch"]

\* The code after the loop, the same in the three functions:
\* if returnData == "" { returnData = s.Buffer; s.Buffer = "" }, then the
\* error from foundMatch.
Finish(returnData, buf, foundMatch) ==
    [text |-> IF returnData = <<>> THEN buf ELSE returnData,
     rest |-> IF returnData = <<>> THEN <<>> ELSE buf,
     err |-> IF foundMatch THEN "nil" ELSE "ErrNoMatch"]

\* CompileFailure falling through to the draining code after the loop.
CompileFailureDrains(buf) == [text |-> buf, rest |-> <<>>, err |-> "ErrCompile"]

\* ReadUntilRegex when regexp.Compile fails: return "", err with s.Buffer
\* untouched.
CompileFailure(buf) == [text |-> <<>>, rest |-> buf, err |-> "ErrCompile"]

\* regexp.Compile at the entry of a read-until function: only ReadUntilRegex
\* checks the error.
EntryFails(fn, target) == fn = "ReadUntilRegex" /\ ~Compiles(target)

\* Time a loop iteration can take beyond what it asks for, as seen by the
\* next reading of the wall clock in the loop condition: time.Sleep lasts at
\* least its duration, and the match test, the receive and the scheduler
\* take time of their own.
Late == {k * PollQuantumMs : k \in 0..MaxLate}

\* The loop condition getTimestamp()-startTime < timeoutMs.
InTime(el, timeoutMs) == el < timeoutMs

\* GetDataAppend putting the chunk in front of the buffer.
GetDataPrepend(buf, data) == data \o buf

\* GetData, case data := <-s.Data: s.Buffer += data.
GetDataAppend(buf, data) == buf \o data

\* What the API function hands to its caller, given what its read-until call
\* returned: SendCommand drops the error (output, _ := ...; return output, nil),
\* also when SendCommandStripCommand made the call.
ApiResult(api, text, readErr) ==
    IF api \in {"SendCommand", "SendCommandStripCommand"}
    THEN [text |-> text, err |-> "nil"]
    ELSE [text |-> text, err |-> readErr]

\* Write: the bytes of str + "\n".
WriteBytes(str) == str \o <<"\n">>

\* ------------------------------------------------------------------ state
\* SendCommandStripCommand without the test of the first line.
StripCommandResultNoTest(output, err, command) ==
    IF err # "nil" THEN [text |-> <<>>, err |-> err]
    ELSE [text |-> Join(Tail(Split(output, NL)), NL), err |-> "nil"]

\* SendCommandStripCommand after its SendCommand returned output, err:
\* outputList := strings.Split(output, "\n"); when outputList[0] contains the
\* command, strings.Join(outputList[1:], "\n"), else output.
StripCommandResult(output, err, command) ==
    IF err # "nil" THEN [text |-> <<>>, err |-> err]
    ELSE LET outputList == Split(output, NL)
         IN  IF Contains(outputList[1], command)
             THEN [text |-> Join(Tail(outputList), NL), err |-> "nil"]
             ELSE [text |-> output, err |-> "nil"]

\* What the API function api, called with command, returns once its read-until
\* call returned text, readErr.
ApiReturn(api, command, text, readErr) ==
    IF api = "SendCommandStripCommand"
    THEN StripCommandResult(ApiResult(api, text, readErr).text,
                            ApiResult(api, text, readErr).err, command)
    ELSE ApiResult(api, text, readErr)

VARIABLES
    Buffer,       \* SSHLib.Buffer
    rpc,          \* per reader goroutine: "off" (not started), "read" (in Stdout.Read), "send" (in s.Data <- ...)
    rdata,        \* per reader goroutine: string(recvData[:numBytes]) it is sending
    rsrc,         \* per reader goroutine: the session whose stdout pipe its Read is on
    eof,          \* the sessions whose stdout pipe has ended
    readLog,      \* history: the chunks the readers' Read calls returned
    appendLog,    \* history: what each GetData receive added to Buffer
    pc,           \* caller: "idle", "loop" (inside a read-until loop), "panicked"
    call,         \* the call in flight
    elapsed,      \* getTimestamp() - startTime of the read-until call in flight
    ret,          \* the last return to the caller
    returned,     \* history: concatenation of the texts the read-until calls returned
    Stdin,        \* the byte strings written to s.Stdin
    Connected,    \* SSHAgent.Connected
    calls,        \* API calls started
    Conn,         \* SSHLib.Conn: "nil", "open" or "closed"
    setUsed       \* history: SetConnected has been called

vars == <<Buffer, rpc, rdata, rsrc, eof, readLog, appendLog, pc, call, elapsed,
          ret, returned, Stdin, Connected, calls, Conn, setUsed>>

Readers == 1..MaxReaders

\* Stdout.Read calls that returned an error (with zero bytes).
failedReads == Cardinality({i \in 1..Len(readLog) : readLog[i] = <<>>})

NoCall == [api |-> "none", stage |-> "none", fn |-> "none", target |-> <<>>,
           timeoutMs |-> 0, log0 |-> 0, cmd |-> <<>>, next |-> "none",
           nextTarget |-> <<>>, opens |-> 0, wrote |-> <<>>, conn0 |-> FALSE]

NoRet == [api |-> "none", fn |-> "none", target |-> <<>>, text |-> <<>>,
          err |-> "nil", readErr |-> "nil", pre |-> <<>>, post |-> <<>>,
          timeoutMs |-> 0, waited |-> 0, recvd |-> 0, how |-> "none",
          opens |-> 0, wrote |-> <<>>, conn0 |-> FALSE, cmd |-> <<>>,
          output |-> <<>>]


\* The state after Create() returned without error: Open dialled, started the
\* one reader goroutine and found the prompt at the end of what had arrived,
\* and Connect set the flag.
Init ==
    /\ Buffer = <<>>
    /\ rpc = [r \in Readers |-> IF r = 1 THEN "read" ELSE "off"]
    /\ rdata = [r \in Readers |-> <<>>]
    /\ rsrc = [r \in Readers |-> r]
    /\ eof = {}
    /\ readLog = <<>>
    /\ appendLog = <<>>
    /\ pc = "idle"
    /\ call = NoCall
    /\ elapsed = 0
    /\ ret = NoRet
    /\ returned = <<>>
    /\ Stdin = <<>>
    /\ Connected = TRUE
    /\ calls = 0
    /\ Conn = "open"
    /\ setUsed = FALSE

\* The state inside Create() after CreateSSH() and before its Connect(): no
\* session, no reader goroutine, the flag false.
InitAgent ==
    /\ Buffer = <<>>
    /\ rpc = [r \in Readers |-> "off"]
    /\ rdata = [r \in Readers |-> <<>>]
    /\ rsrc = [r \in Readers |-> r]
    /\ eof = {}
    /\ readLog = <<>>
    /\ appendLog = <<>>
    /\ pc = "idle"
    /\ call = NoCall
    /\ elapsed = 0
    /\ ret = NoRet
    /\ returned = <<>>
    /\ Stdin = <<>>
    /\ Connected = FALSE
    /\ calls = 0
    /\ Conn = "nil"
    /\ setUsed = FALSE

readerVars == <<rpc, rdata, rsrc, eof, readLog>>
\* What only the agent's methods change.
agentVars == <<Stdin, Connected, Conn, setUsed>>
callerVars == <<Buffer, appendLog, pc, call, elapsed, ret, returned, calls, agentVars>>

\* ------------------------------------------------------- reader goroutine
\* reader: numBytes, _ := s.Stdout.Read(recvData) returns a non-empty chunk,
\* which a pipe that has not ended can do.
ReaderRead(r) ==
    /\ pc # "panicked"
    /\ rpc[r] = "read"
    /\ rsrc[r] \notin eof
    /\ Len(readLog) < MaxReads
    /\ \E c \in Chunks :
          /\ rdata' = [rdata EXCEPT ![r] = c]
          /\ readLog' = Append(readLog, c)
    /\ rpc' = [rpc EXCEPT ![r] = "send"]
    /\ UNCHANGED <<rsrc, eof, callerVars>>

\* reader: Stdout.Read fails (EOF or error) with numBytes = 0: the pipe it read
\* has ended; the error is discarded and the loop goes on to send
\* string(recvData[:0]).
ReaderReadFail(r) ==
    /\ pc # "panicked"
    /\ rpc[r] = "read"
    /\ Len(readLog) < MaxReads
    /\ rdata' = [rdata EXCEPT ![r] = <<>>]
    /\ readLog' = Append(readLog, <<>>)
    /\ eof' = eof \cup {rsrc[r]}
    /\ rpc' = [rpc EXCEPT ![r] = "send"]
    /\ UNCHANGED <<rsrc, callerVars>>

\* ------------------------------------------------------------ the caller
\* The part of ret that is copied from the call c.
BaseRet(c) ==
    [NoRet EXCEPT !.api = c.api, !.fn = c.fn, !.target = c.target,
                  !.timeoutMs = c.timeoutMs, !.opens = c.opens,
                  !.wrote = c.wrote, !.conn0 = c.conn0, !.cmd = c.cmd]

\* s.Stdin is set once an Open got as far as StdinPipe(), which is when it
\* started a reader.
StdinSet == rpc[1] # "off"

\* The rest of an agent method once its Connect() returned nil, with buf the
\* Buffer: Connect returns; the Send methods call Conn.Write(command), which
\* panics on a nil s.Stdin; SendCommandNoWait then returns nil, SendCommand and
\* SendCommandWaitForList enter their read-until call with the agent's Timeout.
AfterConnect(c, buf) ==
    IF c.api = "Connect"
    THEN /\ ret' = [BaseRet(c) EXCEPT !.how = "agent", !.pre = buf, !.post = buf]
         /\ pc' = "idle"
         /\ call' = NoCall
         /\ elapsed' = 0
         /\ UNCHANGED Stdin
    ELSE IF ~StdinSet
    THEN /\ ret' = [BaseRet(c) EXCEPT !.how = "panic", !.err = "panic",
                                      !.readErr = "panic", !.pre = buf, !.post = buf]
         /\ pc' = "panicked"
         /\ call' = c
         /\ elapsed' = 0
         /\ UNCHANGED Stdin
    ELSE LET w == [c EXCEPT !.wrote = Append(c.wrote, WriteBytes(c.cmd))]
             m == [w EXCEPT !.stage = "main", !.fn = c.next, !.target = c.nextTarget,
                            !.timeoutMs = Timeout * MsPerSecond,
                            !.log0 = Len(appendLog)]
         IN  /\ Stdin' = Append(Stdin, WriteBytes(c.cmd))
             /\ IF c.api = "SendCommandNoWait"
                THEN /\ ret' = [BaseRet(w) EXCEPT !.how = "agent", !.pre = buf,
                                                  !.post = buf]
                     /\ pc' = "idle"
                     /\ call' = NoCall
                     /\ elapsed' = 0
                ELSE IF EntryFails(m.fn, m.target)
                THEN /\ ret' = [BaseRet(m) EXCEPT
                                  !.how = "entry", !.pre = buf, !.post = buf,
                                  !.readErr = CompileFailure(buf).err,
                                  !.err = ApiReturn(m.api, m.cmd, <<>>,
                                                    CompileFailure(buf).err).err]
                     /\ pc' = "idle"
                     /\ call' = NoCall
                     /\ elapsed' = 0
                ELSE /\ ret' = NoRet
                     /\ pc' = "loop"
                     /\ call' = m
                     /\ elapsed' = 0

\* OpenFailResult handing Open's error on from every method.
OpenFailResultPassesError(api, e) == e

\* What an agent method returns when its Open failed with error e: Connect
\* passes it on, the Send methods return ErrLostConnection.
OpenFailResult(api, e) == IF api = "Connect" THEN e ELSE "ErrLostConnection"

\* Return from a read-until call made by the caller or by SendCommand /
\* SendCommandWaitForList, with fin = [text, rest, err], and from the API
\* function that made it.  ret records the return: pre and post are Buffer
\* before and after the returning step, waited the elapsed time, recvd the
\* chunks received during the call, and how the path taken ("entry", "match",
\* "expire", "panic", or "agent" for an agent method that read nothing).
ReturnMain(c, fin, waited, how) ==
    /\ Buffer' = fin.rest
    /\ ret' = [BaseRet(c) EXCEPT
                 !.text = ApiReturn(c.api, c.cmd, fin.text, fin.err).text,
                 !.err = ApiReturn(c.api, c.cmd, fin.text, fin.err).err,
                 !.output = ApiResult(c.api, fin.text, fin.err).text,
                 !.readErr = fin.err, !.pre = Buffer, !.post = fin.rest,
                 !.waited = waited, !.recvd = Len(appendLog) - c.log0,
                 !.how = how]
    /\ returned' = returned \o fin.text
    /\ pc' = "idle"
    /\ call' = NoCall
    /\ elapsed' = 0
    /\ UNCHANGED <<Stdin, Connected>>

\* Return from Open's ReadUntilRegex(s.PromptReg, 3): on an error Open returns
\* ErrNoPrompt and the agent method fails; otherwise Connect sets the flag and
\* the agent method goes on.
ReturnOpen(c, fin, waited, how) ==
    /\ Buffer' = fin.rest
    /\ returned' = returned \o fin.text
    /\ IF fin.err # "nil"
       THEN /\ ret' = [BaseRet(c) EXCEPT
                         !.err = OpenFailResult(c.api, "ErrNoPrompt"),
                         !.readErr = fin.err, !.pre = Buffer, !.post = fin.rest,
                         !.waited = waited, !.recvd = Len(appendLog) - c.log0,
                         !.how = how]
            /\ pc' = "idle"
            /\ call' = NoCall
            /\ elapsed' = 0
            /\ UNCHANGED <<Stdin, Connected>>
       ELSE /\ Connected' = TRUE
            /\ AfterConnect(c, fin.rest)

Return(c, fin, waited, how) ==
    IF c.stage = "open" THEN ReturnOpen(c, fin, waited, how)
    ELSE ReturnMain(c, fin, waited, how)

\* Entry of a read-until function: startTime, timeoutMs and the compilation of
\* the pattern(s); ReadUntilRegex returns at once when its pattern is invalid.
Enter(api, fn, target, timeout) ==
    LET c == [NoCall EXCEPT !.api = api, !.stage = "main", !.fn = fn,
                            !.target = target,
                            !.timeoutMs = timeout * MsPerSecond,
                            !.log0 = Len(appendLog), !.conn0 = Connected]
    IN  IF EntryFails(fn, target)
        THEN Return(c, CompileFailure(Buffer), 0, "entry")
        ELSE /\ call' = c
             /\ pc' = "loop"
             /\ elapsed' = 0
             /\ ret' = NoRet
             /\ UNCHANGED <<Buffer, returned, Stdin, Connected>>

CanCall ==
    /\ pc = "idle"
    /\ calls < MaxCalls

\* s.ReadUntil(str, timeout)
ReadUntil ==
    /\ CanCall
    /\ \E str \in Literals, timeout \in Timeouts :
          Enter("ReadUntil", "ReadUntil", str, timeout)
    /\ calls' = calls + 1
    /\ UNCHANGED <<readerVars, appendLog, Conn, setUsed>>

\* s.WriteThenReadUntil(sendStr, matchStr, timeout): Write(sendStr), which
\* panics on a nil s.Stdin, then ReadUntil(matchStr, timeout).
WriteThenReadUntil ==
    /\ CanCall
    /\ \E sendStr \in Commands, matchStr \in Literals, timeout \in Timeouts :
          LET c == [NoCall EXCEPT !.api = "WriteThenReadUntil", !.stage = "main",
                                  !.fn = "ReadUntil", !.target = matchStr,
                                  !.timeoutMs = timeout * MsPerSecond,
                                  !.log0 = Len(appendLog), !.conn0 = Connected,
                                  !.cmd = sendStr]
          IN  IF ~StdinSet
              THEN /\ ret' = [BaseRet(c) EXCEPT !.how = "panic", !.err = "panic",
                                                !.readErr = "panic", !.pre = Buffer,
                                                !.post = Buffer]
                   /\ pc' = "panicked"
                   /\ call' = c
                   /\ UNCHANGED Stdin
              ELSE /\ Stdin' = Append(Stdin, WriteBytes(sendStr))
                   /\ ret' = NoRet
                   /\ pc' = "loop"
                   /\ call' = [c EXCEPT !.wrote = <<WriteBytes(sendStr)>>]
    /\ elapsed' = 0
    /\ calls' = calls + 1
    /\ UNCHANGED <<readerVars, Buffer, appendLog, returned, Connected, Conn, setUsed>>

\* s.ReadUntilRegex(regexStr, timeout)
ReadUntilRegex ==
    /\ CanCall
    /\ \E p \in Patterns, timeout \in Timeouts :
          Enter("ReadUntilRegex", "ReadUntilRegex", p, timeout)
    /\ calls' = calls + 1
    /\ UNCHANGED <<readerVars, appendLog, Conn, setUsed>>

\* s.ReadUntilRegexList(regexList, timeout)
ReadUntilRegexList ==
    /\ CanCall
    /\ \E l \in RegexLists, timeout \in Timeouts :
          Enter("ReadUntilRegexList", "ReadUntilRegexList", l, timeout)
    /\ calls' = calls + 1
    /\ UNCHANGED <<readerVars, appendLog, Conn, setUsed>>

\* The first reader goroutine not yet started.  Reader r is the one started by
\* the r-th Open that got a session, and session r is that session.
NextReader == Min({r \in Readers : rpc[r] = "off"})

\* The sessions reader r may read next when Open has assigned the pipe of the
\* new session to s.Stdout: the new reader reads the new session; a reader that
\* is in Read stays blocked on the pipe it took or, when it takes the field
\* only after the assignment, reads the new one; a reader in its send takes
\* the field later.
OpenSources(r) ==
    IF r = NextReader THEN {NextReader}
    ELSE IF rpc[r] = "read" THEN {rsrc[r], NextReader}
    ELSE {rsrc[r]}

\* The session whose stdout pipe the field s.Stdout holds: the latest one.
Stdout == Cardinality({r \in Readers : rpc[r] # "off"})

\* An agent method from its Connect() on.  With the flag set, Connect returns
\* nil without calling Open.  Otherwise Open: ssh.Dial or NewSession may fail
\* (ErrNoConnection; a failed NewSession leaves s.Conn nil); else the session
\* is up, Open starts a reader goroutine with go s.reader() and waits for the
\* prompt with ReadUntilRegex(s.PromptReg, 3).
AgentCall(api, cmd, next, nextTarget) ==
    LET c == [NoCall EXCEPT !.api = api, !.stage = "open", !.cmd = cmd,
                            !.next = next, !.nextTarget = nextTarget,
                            !.conn0 = Connected, !.log0 = Len(appendLog)]
    IN  IF Connected
        THEN /\ AfterConnect(c, Buffer)
             /\ UNCHANGED <<Buffer, returned, Connected, Conn, readerVars>>
        ELSE \/ /\ ret' = [BaseRet(c) EXCEPT
                             !.opens = 1, !.how = "agent", !.pre = Buffer,
                             !.post = Buffer,
                             !.err = OpenFailResult(api, "ErrNoConnection")]
                /\ \/ UNCHANGED Conn
                   \/ Conn' = "nil"
                /\ UNCHANGED <<Buffer, returned, Connected, Stdin, readerVars, pc,
                               call, elapsed>>
             \/ /\ \E r \in Readers : rpc[r] = "off"
                /\ Conn' = "open"
                /\ rpc' = [rpc EXCEPT ![NextReader] = "read"]
                /\ rsrc' \in {f \in [Readers -> Readers] :
                              \A r \in Readers : f[r] \in OpenSources(r)}
                /\ UNCHANGED <<rdata, eof, readLog>>
                /\ LET o == [c EXCEPT !.opens = 1, !.fn = "ReadUntilRegex",
                                      !.target = PromptRegex,
                                      !.timeoutMs = OpenPromptTimeout * MsPerSecond]
                   IN  IF EntryFails(o.fn, o.target)
                       THEN ReturnOpen(o, CompileFailure(Buffer), 0, "entry")
                       ELSE /\ call' = o
                            /\ pc' = "loop"
                            /\ elapsed' = 0
                            /\ ret' = NoRet
                            /\ UNCHANGED <<Buffer, returned, Stdin, Connected>>

\* agent.Connect()
Connect ==
    /\ CanCall
    /\ AgentCall("Connect", <<>>, "none", <<>>)
    /\ calls' = calls + 1
    /\ UNCHANGED <<appendLog, setUsed>>

\* agent.SendCommandNoWait(command)
SendCommandNoWait ==
    /\ CanCall
    /\ \E cmd \in Commands : AgentCall("SendCommandNoWait", cmd, "none", <<>>)
    /\ calls' = calls + 1
    /\ UNCHANGED <<appendLog, setUsed>>

\* agent.SendCommand(command): SendCommandNoWait(command), then
\* Conn.ReadUntilRegex(PromptRegex, Timeout).
SendCommand ==
    /\ CanCall
    /\ \E cmd \in Commands :
          AgentCall("SendCommand", cmd, "ReadUntilRegex", PromptRegex)
    /\ calls' = calls + 1
    /\ UNCHANGED <<appendLog, setUsed>>

\* agent.SendCommandWaitForList(command, regexList): SendCommandNoWait(command),
\* then Conn.ReadUntilRegexList(append(regexList, PromptRegex), Timeout).
SendCommandWaitForList ==
    /\ CanCall
    /\ \E cmd \in Commands, l \in ExtraLists :
          AgentCall("SendCommandWaitForList", cmd, "ReadUntilRegexList",
                    Append(l, PromptRegex))
    /\ calls' = calls + 1
    /\ UNCHANGED <<appendLog, setUsed>>

\* agent.Logout(): s.Conn.Close(), which panics on a nil s.Conn; the flag is
\* left as it is.
Logout ==
    /\ CanCall
    /\ calls' = calls + 1
    /\ LET c == [NoCall EXCEPT !.api = "Logout", !.conn0 = Connected]
       IN  IF Conn = "nil"
           THEN /\ ret' = [BaseRet(c) EXCEPT !.how = "panic", !.err = "panic",
                                             !.readErr = "panic", !.pre = Buffer,
                                             !.post = Buffer]
                /\ pc' = "panicked"
                /\ UNCHANGED Conn
           ELSE /\ ret' = [BaseRet(c) EXCEPT !.how = "agent", !.pre = Buffer,
                                             !.post = Buffer]
                /\ Conn' = "closed"
                /\ UNCHANGED pc
    /\ UNCHANGED <<readerVars, Buffer, appendLog, call, elapsed, returned, Stdin,
                   Connected, setUsed>>

\* agent.SetConnected(conFlag)
SetConnected ==
    /\ CanCall
    /\ calls' = calls + 1
    /\ \E conFlag \in BOOLEAN :
          /\ Connected' = conFlag
          /\ ret' = [BaseRet([NoCall EXCEPT !.api = "SetConnected",
                                            !.conn0 = Connected])
                       EXCEPT !.how = "agent", !.pre = Buffer, !.post = Buffer]
    /\ setUsed' = TRUE
    /\ UNCHANGED <<readerVars, Buffer, appendLog, pc, call, elapsed, returned, Stdin,
                   Conn>>

\* The loop condition fails: the deadline has passed without a match.
PollExpire ==
    /\ pc = "loop"
    /\ ~InTime(elapsed, call.timeoutMs)
    /\ Return(call, Finish(<<>>, Buffer, FALSE), elapsed, "expire")
    /\ UNCHANGED <<readerVars, appendLog, calls, Conn, setUsed>>

\* A loop iteration whose match test succeeds: consume, leave the loop, return.
PollMatch ==
    /\ pc = "loop"
    /\ InTime(elapsed, call.timeoutMs)
    /\ LET m == MatchStep(call.fn, call.target, Buffer)
       IN  /\ ~m.panic
           /\ m.found
           /\ Return(call, Finish(m.data, m.rest, TRUE), elapsed, "match")
    /\ UNCHANGED <<readerVars, appendLog, calls, Conn, setUsed>>

\* A loop iteration of ReadUntilRegexList that calls MatchString on the nil
\* *Regexp of a pattern that did not compile: the program panics.
PollPanic ==
    /\ pc = "loop"
    /\ InTime(elapsed, call.timeoutMs)
    /\ LET m == MatchStep(call.fn, call.target, Buffer)
       IN  /\ m.panic
           /\ Buffer' = m.rest
           /\ ret' = [BaseRet(call) EXCEPT
                        !.err = "panic", !.readErr = "panic", !.pre = Buffer,
                        !.post = m.rest, !.waited = elapsed,
                        !.recvd = Len(appendLog) - call.log0, !.how = "panic"]
    /\ pc' = "panicked"
    /\ UNCHANGED <<readerVars, appendLog, call, elapsed, returned, calls, agentVars>>

\* A loop iteration without a match, GetData with a reader blocked in its
\* send: the chunk is received and appended to Buffer. The next loop
\* condition reads the clock, which has not moved or has moved on.
PollRecv ==
    /\ pc = "loop"
    /\ InTime(elapsed, call.timeoutMs)
    /\ LET m == MatchStep(call.fn, call.target, Buffer)
       IN  ~m.panic /\ ~m.found
    /\ \E r \in Readers :
          /\ rpc[r] = "send"
          /\ Buffer' = GetDataAppend(Buffer, rdata[r])
          /\ rpc' = [rpc EXCEPT ![r] = "read"]
          /\ rdata' = [rdata EXCEPT ![r] = <<>>]
          /\ rsrc' = [rsrc EXCEPT ![r] = Stdout]
    /\ appendLog' = Append(appendLog, Drop(Buffer', Len(Buffer)))
    /\ \E d \in Late : elapsed' = elapsed + d
    /\ UNCHANGED <<eof, readLog, pc, call, ret, returned, calls, agentVars>>

\* A loop iteration without a match, GetData with no sender ready: sleep at
\* least one poll quantum. The next loop condition reads the clock after it.
PollSleep ==
    /\ pc = "loop"
    /\ InTime(elapsed, call.timeoutMs)
    /\ LET m == MatchStep(call.fn, call.target, Buffer)
       IN  ~m.panic /\ ~m.found
    /\ \A r \in Readers : rpc[r] # "send"
    /\ \E d \in Late : elapsed' = elapsed + PollQuantumMs + d
    /\ UNCHANGED <<readerVars, Buffer, appendLog, pc, call, ret, returned, calls,
                   agentVars>>

\* The session on an open connection: the reader goroutine and the caller of
\* the read-until functions and of the agent's Send methods.
Next ==
    \/ \E r \in Readers : ReaderRead(r)
    \/ \E r \in Readers : ReaderReadFail(r)
    \/ ReadUntil
    \/ WriteThenReadUntil
    \/ ReadUntilRegex
    \/ ReadUntilRegexList
    \/ SendCommand
    \/ SendCommandWaitForList
    \/ PollExpire
    \/ PollMatch
    \/ PollPanic
    \/ PollRecv
    \/ PollSleep

Spec == Init /\ [][Next]_vars

\* The session with its scheduling: the caller's goroutine keeps running, so
\* an iteration of its loop that can be taken is taken; the clock read by
\* getTimestamp() advances by at least a poll quantum in every sleep.
FairSpec ==
    /\ Spec
    /\ WF_vars(PollExpire)
    /\ WF_vars(PollMatch)
    /\ WF_vars(PollPanic)
    /\ WF_vars(PollRecv)
    /\ WF_vars(PollSleep)

\* The agent from its construction on: connecting, reconnecting, logging out.
AgentNext ==
    \/ \E r \in Readers : ReaderRead(r)
    \/ \E r \in Readers : ReaderReadFail(r)
    \/ Connect
    \/ SendCommandNoWait
    \/ SendCommand
    \/ Logout
    \/ SetConnected
    \/ ReadUntil
    \/ WriteThenReadUntil
    \/ PollExpire
    \/ PollMatch
    \/ PollRecv
    \/ PollSleep

AgentSpec == InitAgent /\ [][AgentNext]_vars

\* The agent when SendCommandStripCommand is called: not yet connected, or
\* connected with the reader waiting in Read or holding the chunk it has read.
InitStrip ==
    \/ InitAgent
    \/ /\ Init
    \/ /\ Buffer = <<>>
       /\ \E chunk \in Outputs \ {<<>>} :
             /\ rdata = [r \in Readers |-> IF r = 1 THEN chunk ELSE <<>>]
             /\ readLog = <<chunk>>
       /\ rpc = [r \in Readers |-> IF r = 1 THEN "send" ELSE "off"]
       /\ rsrc = [r \in Readers |-> r]
       /\ eof = {}
       /\ appendLog = <<>>
       /\ pc = "idle"
       /\ call = NoCall
       /\ elapsed = 0
       /\ ret = NoRet
       /\ returned = <<>>
       /\ Stdin = <<>>
       /\ Connected = TRUE
       /\ calls = 0
       /\ Conn = "open"
       /\ setUsed = FALSE

\* agent.SendCommandStripCommand(command): SendCommand(command), then the first
\* line of its output is removed when it contains the command.
SendCommandStripCommand ==
    /\ CanCall
    /\ \E cmd \in StripCommands :
          AgentCall("SendCommandStripCommand", cmd, "ReadUntilRegex", PromptRegex)
    /\ calls' = calls + 1
    /\ UNCHANGED <<appendLog, setUsed>>

\* The agent used through SendCommandStripCommand.
StripNext ==
    \/ \E r \in Readers : ReaderRead(r)
    \/ \E r \in Readers : ReaderReadFail(r)
    \/ SendCommandStripCommand
    \/ PollExpire
    \/ PollMatch
    \/ PollRecv
    \/ PollSleep

StripSpec == InitStrip /\ [][StripNext]_vars

\* ------------------------------------------------------------ properties
ReadFns == {"ReadUntil", "ReadUntilRegex", "ReadUntilRegexList"}

\* The chunk the session's reader holds while blocked in its send, as a list of
\* chunks.
InHandoff == IF rpc[1] = "send" THEN <<rdata[1]>> ELSE <<>>

\* End offset of the first match of the target of ReadUntil or ReadUntilRegex
\* in buf (the target is present).
MatchEnd(fn, target, buf) ==
    IF fn = "ReadUntil" THEN Index(buf, target) + Len(target)
    ELSE FindStringIndex(target, buf)[2]

\* Indices of the patterns of list that compile and match buf.
Matching(list, buf) ==
    {i \in 1..Len(list) : Compiles(list[i]) /\ MatchString(list[i], buf)}

\* C1: whenever ReadUntil or ReadUntilRegex returns on a match, the returned
\* text followed by the Buffer left after the call is the Buffer content at
\* the moment of the match.
C1_PrefixRemainderPartition ==
    (ret.fn \in {"ReadUntil", "ReadUntilRegex"} /\ ret.how = "match")
        => ret.text \o ret.post = ret.pre

\* C2: whenever a read-until call leaves its loop because the deadline expired
\* without a match, it returns the entire Buffer content at expiry with
\* ErrNoMatch and leaves Buffer empty.
C2_TimeoutDraining ==
    (ret.fn \in ReadFns /\ ret.how = "expire")
        => /\ ret.text = ret.pre
           /\ ret.readErr = "ErrNoMatch"
           /\ ret.post = <<>>
           /\ Buffer = <<>>

\* C2 witness: ReadUntilRegexList timed out with data in the Buffer.
C2_Witness ==
    /\ ret.fn = "ReadUntilRegexList"
    /\ ret.how = "expire"
    /\ ret.timeoutMs > 0
    /\ Len(ret.pre) >= 2

\* C3: whenever ReadUntilRegexList returns on a match, the result is the match
\* of the earliest-indexed pattern that matched the Buffer on that poll: the
\* text is Buffer[0:matchEnd] of that pattern and the remainder Buffer[matchEnd:].
C3_ListTieBreak ==
    (ret.fn = "ReadUntilRegexList" /\ ret.how = "match")
        => LET first == Min(Matching(ret.target, ret.pre))
               matchEnd == FindStringIndex(ret.target[first], ret.pre)[2]
           IN  /\ ret.text = Take(ret.pre, matchEnd)
               /\ ret.post = Drop(ret.pre, matchEnd)

\* C4: the chunks appended to Buffer, followed by the chunk in the handoff, are
\* the chunks the reader read from the stream, in the same order, each once.
C4_OrderPreserved == appendLog \o InHandoff = readLog

\* C4 witness: two different chunks were read and both were appended, the
\* second to a Buffer that still held the first.
C4_Witness ==
    /\ Len(appendLog) = 2
    /\ appendLog[1] # appendLog[2]
    /\ appendLog[1] # <<>>
    /\ appendLog[2] # <<>>
    /\ Buffer = appendLog[1] \o appendLog[2]

\* C5: the texts returned so far, followed by Buffer, followed by the chunk in
\* the handoff, are the bytes read from the stream so far.
C5_BufferAccounting ==
    pc # "panicked" => returned \o Buffer \o Flatten(InHandoff) = Flatten(readLog)

\* C6: ReadUntilRegex with a pattern that does not compile returns at its
\* entry: an error, empty text, Buffer unchanged, no time waited and no chunk
\* received.
C6_InvalidPatternFailsFast ==
    (ret.api = "ReadUntilRegex" /\ ~Compiles(ret.target))
        => /\ ret.how = "entry"
           /\ ret.err = "ErrCompile"
           /\ ret.text = <<>>
           /\ ret.post = ret.pre
           /\ ret.waited = 0
           /\ ret.recvd = 0

\* C6 witness: the invalid pattern was given with a positive timeout while the
\* Buffer held data.
C6_Witness ==
    /\ ret.api = "ReadUntilRegex"
    /\ ret.target = Bad
    /\ ret.timeoutMs > 0
    /\ ret.pre # <<>>
    /\ Buffer = ret.pre

\* C7: ReadUntilRegexList with a list containing a pattern that does not
\* compile does not abort: it ends with a match of a valid pattern or, at the
\* deadline, with ErrNoMatch.
C7_InvalidListPatternsSkipped ==
    /\ pc # "panicked"
    /\ (ret.fn = "ReadUntilRegexList" /\ \E i \in 1..Len(ret.target) : ~Compiles(ret.target[i]))
           => ret.how \in {"match", "expire"}

\* C8: whenever ReadUntil or ReadUntilRegex returns on a match, the returned
\* text is the Buffer prefix that ends at the end of the first match, also when
\* the match ends at offset 0.
C8_MatchBoundary ==
    (ret.fn \in {"ReadUntil", "ReadUntilRegex"} /\ ret.how = "match")
        => ret.text = Take(ret.pre, MatchEnd(ret.fn, ret.target, ret.pre))

\* C9: SendCommand signals NoMatch with the text that arrived when the prompt
\* pattern did not match before the timeout, and success only on a match.
C9_SendCommandReportsMatch ==
    ret.api = "SendCommand"
        => /\ (ret.how = "expire" => ret.err = "ErrNoMatch" /\ ret.text = ret.pre)
           /\ (ret.err = "nil" => ret.how = "match")

\* C10: once a read of the stream has failed the reader has terminated: it
\* reads no more and sends nothing more on the handoff channel.
C10_ReaderTerminates ==
    failedReads >= 1 => (rpc[1] = "exited" /\ failedReads = 1)

\* C11: every chunk a reader sends on the handoff channel is non-empty; a read
\* that returned zero bytes is never forwarded.
C11_NonEmptyChunks ==
    /\ \A r \in Readers : rpc[r] = "send" => rdata[r] # <<>>
    /\ \A i \in 1..Len(appendLog) : appendLog[i] # <<>>

\* C12: SendCommandNoWait writes only with the flag set.  Called with the flag
\* false it calls Open exactly once, and when that Open fails it returns
\* ErrLostConnection, has written nothing and leaves the flag false; called
\* with the flag true it does not call Open.  No read-until call calls Open.
C12_LazySingleReconnect ==
    /\ ret.api = "SendCommandNoWait"
          => /\ (ret.wrote # <<>> => Connected)
             /\ (~ret.conn0 => ret.opens = 1)
             /\ (ret.conn0 => ret.opens = 0)
             /\ ((~ret.conn0 /\ ret.err # "nil" /\ ret.how # "panic")
                    => /\ ret.err = "ErrLostConnection"
                       /\ ret.wrote = <<>>
                       /\ ~Connected)
    /\ ret.api \in ReadFns \cup {"WriteThenReadUntil"} => ret.opens = 0

\* C12 witness: SendCommandNoWait found the flag false and its one Open failed
\* after the reader had been started (no prompt within the three seconds).
C12_Witness ==
    /\ ret.api = "SendCommandNoWait"
    /\ ~ret.conn0
    /\ ret.opens = 1
    /\ ret.how = "expire"
    /\ ret.err = "ErrLostConnection"
    /\ ~Connected

\* The first line of output: the text before the first newline, the whole
\* output when it has no newline.
FirstLine(output) ==
    IF Index(output, NL) < 0 THEN output ELSE Take(output, Index(output, NL))

\* The bytes of output after its first line and the newline that ends it.
AfterFirstLine(output) ==
    IF Index(output, NL) < 0 THEN <<>> ELSE Drop(output, Index(output, NL) + 1)

\* C13: SendCommandStripCommand returns the output of SendCommand without its
\* first line exactly when that first line contains the command, and the
\* output unchanged otherwise; the bytes after the first line are returned as
\* they are in both cases.
C13_StripCommand ==
    (ret.api = "SendCommandStripCommand" /\ ret.how # "panic")
        => /\ ret.err # "nil" => ret.output = <<>>
           /\ ret.text =
                 IF Contains(FirstLine(ret.output), ret.cmd)
                 THEN AfterFirstLine(ret.output)
                 ELSE ret.output
           /\ Drop(ret.text, Len(ret.text) - Len(AfterFirstLine(ret.output)))
                 = AfterFirstLine(ret.output)

\* C13 witness: SendCommand returned three lines, the first held the command
\* and was removed, the two lines after it were returned.
C13_Witness ==
    /\ ret.api = "SendCommandStripCommand"
    /\ ret.cmd = <<"a">>
    /\ ret.output = <<"a", "\n", "\n", "$">>
    /\ ret.text = <<"\n", "$">>
    /\ Stdin # <<>>

\* C14: every call of ReadUntil, ReadUntilRegex or ReadUntilRegexList that has
\* entered its loop eventually returns, whatever the reader does.
C14_ReadUntilTerminates == (pc = "loop") ~> (pc = "idle")

TargetPresent(fn, target, text) ==
    CASE fn = "ReadUntil" -> Contains(text, target)
      [] fn = "ReadUntilRegex" -> Compiles(target) /\ MatchString(target, text)
      [] fn = "ReadUntilRegexList" -> Matching(target, text) # {}

\* C16: whenever a read-until function returns ErrNoMatch, the text it
\* returns holds no match of its target.
C16_NoMatchSound ==
    (ret.fn \in ReadFns /\ ret.readErr = "ErrNoMatch")
        => ~TargetPresent(ret.fn, ret.target, ret.text)

\* The reader goroutines that have been started.
Running == {r \in Readers : rpc[r] # "off"}

\* C17: after any sequence of Create, Connect, SendCommandNoWait, SendCommand
\* and Logout, at most one reader goroutine is running for the session.
C17_OneReader == ~setUsed => Cardinality(Running) <= 1

\* A step of a reader goroutine: it has read the stream.
ReaderStep == readLog' # readLog

\* A step in which GetData receives a chunk and appends it to Buffer.
BufferAppend ==
    /\ pc = "loop"
    /\ pc' = "loop"
    /\ call' = call
    /\ \E r \in Readers :
          /\ rpc[r] = "send"
          /\ rpc'[r] = "read"
          /\ Buffer' = Buffer \o rdata[r]

\* A step in which a read-until call leaves its loop (its caller may go on to
\* its next call) and keeps a suffix of Buffer, possibly none of it.
BufferConsume ==
    /\ pc = "loop"
    /\ pc' # "loop" \/ call' # call
    /\ \E k \in 0..Len(Buffer) : Buffer' = Drop(Buffer, k)

\* C18: a reader step changes nothing of the caller's state, Buffer included;
\* Buffer changes only in the caller's read-until call, by an append of GetData
\* or by a consuming truncation; Write and Close leave Buffer unchanged; and
\* the caller acts on a running reader only through the handoff channel: a step
\* of the caller leaves a reader that is in Read where it is, reading the pipe
\* it was reading.
C18_SingleWriterBuffer ==
    [][/\ ReaderStep
          => UNCHANGED <<Buffer, appendLog, pc, call, elapsed, ret, returned, calls,
                         Stdin, Connected, Conn>>
       /\ Buffer' # Buffer => (BufferAppend \/ BufferConsume)
       /\ (pc = "idle" /\ (Stdin' # Stdin \/ ret'.api = "Logout"))
          => Buffer' = Buffer
       /\ \A r \in Readers :
             (rpc[r] = "read" /\ ~ReaderStep)
                => (rpc'[r] = "read" /\ rsrc'[r] = rsrc[r])]_vars

\* C19: unless SetConnected was used, the Connected flag is true only while the
\* session opened by a successful Open has not been closed.
C19_ConnectedTracksSession == ~setUsed => (Connected => Conn = "open")

====
